---------------------------- MODULE Spec2Model ----------------------------
(***************************************************************************)
(* Model of the token layer of the n19 lexical front end                   *)
(* (src/unnamed/part_000: Token, TokenType, TokenCategory).                *)
(*                                                                         *)
(* A uint32_t is a pair of 16-bit halves [hi, lo], so that the arithmetic  *)
(* of the code wraps at 2^32 exactly as the code's does.  A byte string    *)
(* (std::u8string_view, the lexer's buffer) is a sequence of numbers in    *)
(* 0..255; a std::string is a sequence of chars.                           *)
(***************************************************************************)
EXTENDS Integers, Sequences, FiniteSets, TLC

VARIABLES bytes, char_signed, tok, op, arg, ret

vars == <<bytes, char_signed, tok, op, arg, ret>>

-----------------------------------------------------------------------------
(* Bounds of the model. *)

\* longest source buffer the lexer is constructed over
MaxBuf == 3

\* largest line number handed to a constructor
MaxLine == 1

\* largest category mask handed to to_string
MaxMask == 8

-----------------------------------------------------------------------------
(* uint32_t arithmetic, modulo 2^32. *)

Half == 2^16

ByteRadix == 2^8

W(h, l) == [hi |-> h, lo |-> l]

U32Zero == W(0, 0)

U32Max == W(Half - 1, Half - 1)

U32Small(n) == W(0, n)

IsSmall(a) == a.hi = 0

Add32(a, b) ==
    LET l == a.lo + b.lo
    IN  W((a.hi + b.hi + (l \div Half)) % Half, l % Half)

\* a - 1 in uint32_t: 0 - 1 wraps to 2^32 - 1
Dec32(a) ==
    IF a.lo > 0 THEN W(a.hi, a.lo - 1)
    ELSE IF a.hi > 0 THEN W(a.hi - 1, Half - 1)
    ELSE U32Max

\* uint32_t < size_t, the size being below 2^16 in every modelled buffer
LtSize(a, n) == a.hi = 0 /\ a.lo < n

RECURSIVE XorNat(_, _)
XorNat(a, b) ==
    IF a = 0 THEN b
    ELSE IF b = 0 THEN a
    ELSE (((a % 2) + (b % 2)) % 2) + 2 * XorNat(a \div 2, b \div 2)

RECURSIVE AndNat(_, _)
AndNat(a, b) ==
    IF a = 0 \/ b = 0 THEN 0
    ELSE ((a % 2) * (b % 2)) + 2 * AndNat(a \div 2, b \div 2)

Xor32(a, b) == W(XorNat(a.hi, b.hi), XorNat(a.lo, b.lo))

Mul32(a, b) ==
    LET a0 == a.lo % ByteRadix
        a1 == a.lo \div ByteRadix
        a2 == a.hi % ByteRadix
        a3 == a.hi \div ByteRadix
        b0 == b.lo % ByteRadix
        b1 == b.lo \div ByteRadix
        b2 == b.hi % ByteRadix
        b3 == b.hi \div ByteRadix
        t0 == a0 * b0
        t1 == a0 * b1 + a1 * b0 + (t0 \div ByteRadix)
        t2 == a0 * b2 + a1 * b1 + a2 * b0 + (t1 \div ByteRadix)
        t3 == a0 * b3 + a1 * b2 + a2 * b1 + a3 * b0 + (t2 \div ByteRadix)
    IN  W((t3 % ByteRadix) * ByteRadix + (t2 % ByteRadix),
          (t1 % ByteRadix) * ByteRadix + (t0 % ByteRadix))

Rotl15(x) == W((x.hi % 2) * 2^15 + (x.lo \div 2), (x.lo % 2) * 2^15 + (x.hi \div 2))

Rotl13(x) == W((x.hi % 8) * 2^13 + (x.lo \div 8), (x.lo % 8) * 2^13 + (x.hi \div 8))

Shr16(x) == W(0, x.hi)

Shr13(x) == W(x.hi \div 2^13, (x.hi % 2^13) * 8 + (x.lo \div 2^13))

-----------------------------------------------------------------------------
(* murmur3_x86_32 (Core/Murmur3.hpp), the public 32-bit x86 variant. *)

MM_C1 == W(52382, 11601)    \* 0xcc9e2d51

MM_C2 == W(7047, 13715)     \* 0x1b873593

MM_N == W(58964, 27492)     \* 0xe6546b64

MM_F1 == W(34283, 51819)    \* 0x85ebca6b

MM_F2 == W(49842, 44597)    \* 0xc2b2ae35

MixK(k) == Mul32(Rotl15(Mul32(k, MM_C1)), MM_C2)

\* four bytes of the key, little-endian
Block(s, i) == W(s[i + 3] * ByteRadix + s[i + 2], s[i + 1] * ByteRadix + s[i])

\* h after one whole block k: h ^= k'; h = rotl(h, 13); h = h * 5 + 0xe6546b64
MixH(h, k) == Add32(Mul32(Rotl13(Xor32(h, MixK(k))), U32Small(5)), MM_N)

\* The loop over the whole blocks; each round's h is a value before the next
\* round starts (the set binding evaluates it).
RECURSIVE MixBlocks(_, _, _, _)
MixBlocks(s, i, nblocks, h) ==
    IF i >= nblocks THEN h
    ELSE CHOOSE r \in { MixBlocks(s, i + 1, nblocks, v) :
                          v \in { MixH(h, Block(s, 4 * i + 1)) } } : TRUE

\* the one, two or three bytes after the last whole block
MixTail(s, nblocks, h) ==
    LET n  == Len(s) - 4 * nblocks
        b  == 4 * nblocks
        k3 == IF n >= 3 THEN W(s[b + 3], 0) ELSE U32Zero
        k2 == IF n >= 2 THEN Xor32(k3, W(0, s[b + 2] * ByteRadix)) ELSE k3
        k1 == IF n >= 1 THEN Xor32(k2, W(0, s[b + 1])) ELSE k2
    IN  IF n >= 1 THEN Xor32(h, MixK(k1)) ELSE h

Fmix32(h0) ==
    LET h1 == Xor32(h0, Shr16(h0))
        h2 == Mul32(h1, MM_F1)
        h3 == Xor32(h2, Shr13(h2))
        h4 == Mul32(h3, MM_F2)
    IN  Xor32(h4, Shr16(h4))

murmur3_x86_32(s, seed) ==
    LET nblocks == Len(s) \div 4
    IN  CHOOSE r \in { Fmix32(Xor32(h2, U32Small(Len(s)))) :
                         h2 \in { MixTail(s, nblocks, h1) :
                                   h1 \in { MixBlocks(s, 0, nblocks, seed) } } } : TRUE

-----------------------------------------------------------------------------
(* Spellings: category names as chars, keywords and identifiers as bytes. *)

NAME_NONCAT == <<"N", "o", "n", "C", "a", "t", "e", "g", "o", "r", "i", "c", "a", "l">>

NAME_KEYWORD == <<"K", "e", "y", "w", "o", "r", "d">>

NAME_LITERAL == <<"L", "i", "t", "e", "r", "a", "l">>

NAME_ASSIGN == <<"A", "s", "s", "i", "g", "n", "m", "e", "n", "t">>

KW_IF == <<105, 102>>    \* "if"

KW_RETURN == <<114, 101, 116, 117, 114, 110>>    \* "return"

KW_TRUE == <<116, 114, 117, 101>>    \* "true"

ID_X == <<120>>    \* "x"

ID_IFF == <<105, 102, 102>>    \* "iff"

ID_LONG16 == <<97, 98, 99, 100, 101, 102, 103, 104, 105, 106, 107, 108, 109, 110, 111, 112>>    \* "abcdefghijklmnop"

\* "aadxzAXU": murmur3_x86_32 of it under seed 0xbeef is that of "if"
COLL_IF_8 == <<97, 97, 100, 120, 122, 65, 88, 85>>

\* "aaaaaaiirv0qabc" (15 bytes): hashes as "return" does
COLL_RETURN_15 == <<97, 97, 97, 97, 97, 97, 105, 105, 114, 118, 48, 113, 97, 98, 99>>

\* "aaaaaaaaaahfM6C7" (16 bytes): hashes as "true" does
COLL_TRUE_16 == <<97, 97, 97, 97, 97, 97, 97, 97, 97, 97, 104, 102, 77, 54, 67, 55>>

-----------------------------------------------------------------------------
(* The lists of Frontend/Lexer.hpp: token types, categories, keywords. *)

\* the case labels of the switch of Token::prec
PrecCases ==
    { "ValueAssignment", "PlusEq", "SubEq", "MulEq", "DivEq", "ModEq",
      "LshiftEq", "RshiftEq", "BitwiseAndEq", "BitwiseOrEq", "XorEq",
      "LogicalAnd", "LogicalOr", "Mul", "NamespaceOperator", "Dot", "Eq",
      "Neq", "Lt", "Lte", "Gt", "Gte", "Plus", "Sub", "Div", "Mod",
      "BitwiseAnd", "BitwiseOr", "Xor", "Lshift", "Rshift", "SkinnyArrow" }

\* N19_TOKEN_TYPE_LIST: the types the source names, and the keyword types
TokenTypes ==
    PrecCases \cup { "None", "EndOfFile", "Illegal", "Identifier", "Semicolon",
                     "Comma", "If", "Return", "True" }

\* N19_TOKEN_CATEGORY_LIST, in list order: X(CAT, value)
CategoryList ==
    << [name |-> NAME_NONCAT, value |-> 0],
       [name |-> NAME_KEYWORD, value |-> 1],
       [name |-> NAME_LITERAL, value |-> 2],
       [name |-> NAME_ASSIGN, value |-> 4] >>

NonCategorical == CategoryList[1].value

\* N19_HIR_KEYWORDS, in list order: KEYWORD_X(NAME, TYPE, CAT)
Keywords ==
    << [name |-> KW_IF, type |-> "If", cat |-> 1],
       [name |-> KW_RETURN, type |-> "Return", cat |-> 1],
       [name |-> KW_TRUE, type |-> "True", cat |-> 3] >>

seed == 48879

MaxKeywordLen == 15

\* u8"..."_mm32: the hash of a keyword's spelling, computed at build time
mm32(name) == murmur3_x86_32(name, U32Small(seed))

KeywordHash == [i \in 1..Len(Keywords) |-> mm32(Keywords[i].name)]

-----------------------------------------------------------------------------
(* Results of the calls. *)

Nothing(h) == [kind |-> "Nothing", hashed |-> h]

Some(v, h) == [kind |-> "Some", val |-> v, hashed |-> h]

-----------------------------------------------------------------------------
(* TokenType::from_keyword and TokenCategory::from_keyword *)

\* the switch over the hash: one case per keyword, then default: break
RECURSIVE TypeSwitch(_, _)
TypeSwitch(h, i) ==
    IF i > Len(Keywords) THEN Nothing(TRUE)
    ELSE IF h = KeywordHash[i] THEN Some(Keywords[i].type, TRUE)
    ELSE TypeSwitch(h, i + 1)

RECURSIVE CatSwitch(_, _)
CatSwitch(h, i) ==
    IF i > Len(Keywords) THEN Nothing(TRUE)
    ELSE IF h = KeywordHash[i] THEN Some(Keywords[i].cat, TRUE)
    ELSE CatSwitch(h, i + 1)

\* variant: the guard is off by one and lets 16 bytes through
TokenType_from_keyword_Guard16(keyword) ==
    IF Len(keyword) > MaxKeywordLen + 1 THEN Nothing(FALSE)
    ELSE TypeSwitch(murmur3_x86_32(keyword, U32Small(seed)), 1)

TokenType_from_keyword(keyword) ==
    IF Len(keyword) > MaxKeywordLen THEN Nothing(FALSE)
    ELSE TypeSwitch(murmur3_x86_32(keyword, U32Small(seed)), 1)

\* variant: the category lookup alone rejects 15 bytes too
TokenCategory_from_keyword_Guard15(str) ==
    IF Len(str) >= MaxKeywordLen THEN Nothing(FALSE)
    ELSE CatSwitch(murmur3_x86_32(str, U32Small(seed)), 1)

TokenCategory_from_keyword(str) ==
    IF Len(str) > MaxKeywordLen THEN Nothing(FALSE)
    ELSE CatSwitch(murmur3_x86_32(str, U32Small(seed)), 1)

-----------------------------------------------------------------------------
(* TokenCategory::to_string *)

SEP == <<" ", "|", " ">>

\* the expansion of X over the list: if(value & CAT) buff += #CAT + " | "
RECURSIVE AppendFlags(_, _, _)
AppendFlags(value, i, buff) ==
    IF i > Len(CategoryList) THEN buff
    ELSE AppendFlags(value, i + 1,
                     IF AndNat(value, CategoryList[i].value) # 0
                     THEN buff \o CategoryList[i].name \o SEP
                     ELSE buff)

\* variant: erase(size - 2) leaves the separator's leading blank
TokenCategory_to_string_Erase2(value) ==
    LET buff == AppendFlags(value, 1, <<>>)
    IN  IF buff # <<>> /\ buff[(Len(buff) - 2) + 1] = "|"
        THEN SubSeq(buff, 1, Len(buff) - 2)
        ELSE buff \o NAME_NONCAT

TokenCategory_to_string(value) ==
    LET buff == AppendFlags(value, 1, <<>>)
    IN  IF buff # <<>> /\ buff[(Len(buff) - 2) + 1] = "|"
        THEN SubSeq(buff, 1, Len(buff) - 3)
        ELSE buff \o NAME_NONCAT

-----------------------------------------------------------------------------
(* Token *)

\* Token token; the default member initialisers of the class
Token_default ==
    [pos_ |-> U32Zero, len_ |-> U32Zero, line_ |-> 0,
     cat_ |-> NonCategorical, type_ |-> "None"]

Token_eof(pos, line) ==
    [Token_default EXCEPT !.pos_ = pos, !.line_ = line,
                          !.cat_ = NonCategorical, !.type_ = "EndOfFile"]

\* variant: offset and length swapped
Token_illegal_Swapped(pos, length, line) ==
    [Token_default EXCEPT !.len_ = pos, !.pos_ = length, !.line_ = line,
                          !.cat_ = NonCategorical, !.type_ = "Illegal"]

Token_illegal(pos, length, line) ==
    [Token_default EXCEPT !.len_ = length, !.pos_ = pos, !.line_ = line,
                          !.cat_ = NonCategorical, !.type_ = "Illegal"]

\* variant: the cast keeps seven bits
ToChar_SevenBit(ch, sgn) == ch % 2^7

\* static_cast<char>(ch): char is signed or unsigned, as the build has it
ToChar(ch, sgn) == IF sgn /\ ch >= 2^7 THEN ch - ByteRadix ELSE ch

\* the copy loop, while i stays inside the buffer (b[i + 1] is bytes[i])
RECURSIVE CopyLoop(_, _, _, _, _, _)
CopyLoop(b, i, j, n, sgn, ret_) ==
    IF j >= n THEN ret_
    ELSE CopyLoop(b, i + 1, j + 1, n, sgn, Append(ret_, ToChar(b[i + 1], sgn)))

\* The loop of Token::value once both assertions have passed.  pos_ is below
\* the size here.  When pos_ + len_ (in size_t, no wrap) exceeds the size the
\* loop reads bytes[size], which is undefined: the process crashes, or the
\* string goes on with whatever lies behind the buffer (oob).
ValueLoop(t, b, sgn) ==
    LET size == Len(b)
        pos  == t.pos_.lo
    IN  IF IsSmall(t.len_) /\ pos + t.len_.lo <= size
        THEN { [kind |-> "Some", oob |-> FALSE,
                val |-> CopyLoop(b, pos, 0, t.len_.lo, sgn, <<>>)] }
        ELSE { [kind |-> "Crash", oob |-> TRUE, val |-> <<>>],
               [kind |-> "Some", oob |-> TRUE,
                val |-> CopyLoop(b, pos, 0, size - pos, sgn, <<>>)] }

Fatal == [kind |-> "Fatal", oob |-> FALSE, val |-> <<>>]

\* the two ASSERTs, then the loop
ValueChecked(t, b, sgn) ==
    IF ~LtSize(t.pos_, Len(b)) THEN { Fatal }
    ELSE IF ~LtSize(Dec32(Add32(t.pos_, t.len_)), Len(b)) THEN { Fatal }
    ELSE ValueLoop(t, b, sgn)

\* variant: no test of len_ == 0
Token_value_NoLengthTest(t, b, sgn) == ValueChecked(t, b, sgn)

\* the outcomes of Token::value(lxr), lxr.get_bytes() being b
Token_value(t, b, sgn) ==
    IF t.len_ = U32Zero
    THEN { [kind |-> "Nothing", oob |-> FALSE, val |-> <<>>] }
    ELSE ValueChecked(t, b, sgn)

\* variant: the comma forgotten
Token_is_terminator_SemicolonOnly(t) == t.type_ = "Semicolon"

Token_is_terminator(t) == t.type_ = "Semicolon" \/ t.type_ = "Comma"

\* variant: the multiplicative operators return a rank
PrecSwitch_Ranked(type) == IF type \in {"Mul", "Div", "Mod"} THEN "rank" ELSE "break"

\* the switch of Token::prec: every label falls to default: break
PrecSwitch(type) == IF type \in PrecCases THEN "break" ELSE "break"

Token_prec(t) ==
    IF PrecSwitch(t.type_) = "break"
    THEN [kind |-> "Panic"]
    ELSE [kind |-> "Return", val |-> PrecSwitch(t.type_)]

-----------------------------------------------------------------------------
(* Inputs. *)

\* the bytes a buffer is made of: an ASCII letter and a byte above 0x7f
ByteSamples == {97, 195}

RECURSIVE SeqsUpTo(_, _)
SeqsUpTo(S, n) ==
    IF n = 0 THEN { <<>> }
    ELSE LET R == SeqsUpTo(S, n - 1)
         IN  R \cup { Append(r, x) : r \in { q \in R : Len(q) = n - 1 }, x \in S }

Buffers == SeqsUpTo(ByteSamples, MaxBuf)

\* offsets and lengths: around the buffer's end, and at the top of uint32_t
U32Samples == { U32Small(n) : n \in 0..(MaxBuf + 1) } \cup { U32Max, Dec32(U32Max) }

Lines == 0..MaxLine

Masks == 0..MaxMask

\* spellings handed to the lookups: the keywords, non-keywords, and
\* non-keywords of 8, 15 and 16 bytes whose hash is a keyword's
Candidates ==
    { Keywords[i].name : i \in 1..Len(Keywords) }
    \cup { <<>>, ID_X, ID_IFF, ID_LONG16, COLL_IF_8, COLL_RETURN_15, COLL_TRUE_16 }

-----------------------------------------------------------------------------
(* The state machine.  The scanner holds no token (tok is the default      *)
(* token) or the one it made last.  With no token in hand it looks          *)
(* spellings up, renders categories and makes a token; the token's methods  *)
(* are then called on it until it is discarded.                             *)

NoRet == [kind |-> "None"]

NoToken == tok = Token_default

Init ==
    /\ bytes \in Buffers
    /\ char_signed \in BOOLEAN
    /\ tok = Token_default
    /\ op = "init"
    /\ arg = <<>>
    /\ ret = NoRet

Eof ==
    \E pos \in U32Samples, line \in Lines :
        /\ NoToken
        /\ tok' = Token_eof(pos, line)
        /\ op' = "eof"
        /\ arg' = [pos |-> pos, line |-> line]
        /\ ret' = NoRet
        /\ UNCHANGED <<bytes, char_signed>>

Illegal ==
    \E pos \in U32Samples, length \in U32Samples, line \in Lines :
        /\ NoToken
        /\ tok' = Token_illegal(pos, length, line)
        /\ op' = "illegal"
        /\ arg' = [pos |-> pos, length |-> length, line |-> line]
        /\ ret' = NoRet
        /\ UNCHANGED <<bytes, char_signed>>

\* the lexer emits a token of any type over a span of its buffer
Emit ==
    \E type \in TokenTypes, cat \in {NonCategorical, CategoryList[2].value},
       pos \in 0..(Len(bytes) - 1) :
        \E length \in 1..(Len(bytes) - pos) :
            /\ NoToken
            /\ tok' = [pos_ |-> U32Small(pos), len_ |-> U32Small(length),
                       line_ |-> 1, cat_ |-> cat, type_ |-> type]
            /\ op' = "emit"
            /\ arg' = <<>>
            /\ ret' = NoRet
            /\ UNCHANGED <<bytes, char_signed>>

Value ==
    /\ ret' \in Token_value(tok, bytes, char_signed)
    /\ op' = "value"
    /\ arg' = <<>>
    /\ UNCHANGED <<bytes, char_signed, tok>>

IsTerminator ==
    /\ ret' = [kind |-> "Bool", val |-> Token_is_terminator(tok)]
    /\ op' = "is_terminator"
    /\ arg' = <<>>
    /\ UNCHANGED <<bytes, char_signed, tok>>

Prec ==
    /\ ret' = Token_prec(tok)
    /\ op' = "prec"
    /\ arg' = <<>>
    /\ UNCHANGED <<bytes, char_signed, tok>>

CategoryToString ==
    \E value \in Masks :
        /\ NoToken
        /\ ret' = [kind |-> "String", val |-> TokenCategory_to_string(value)]
        /\ op' = "to_string"
        /\ arg' = value
        /\ UNCHANGED <<bytes, char_signed, tok>>

TypeFromKeyword ==
    \E s \in Candidates :
        /\ NoToken
        /\ ret' = TokenType_from_keyword(s)
        /\ op' = "type_from_keyword"
        /\ arg' = s
        /\ UNCHANGED <<bytes, char_signed, tok>>

CatFromKeyword ==
    \E s \in Candidates :
        /\ NoToken
        /\ ret' = TokenCategory_from_keyword(s)
        /\ op' = "cat_from_keyword"
        /\ arg' = s
        /\ UNCHANGED <<bytes, char_signed, tok>>

\* the token goes out of scope: the next one starts as Token token;
Discard ==
    /\ ~NoToken
    /\ tok' = Token_default
    /\ op' = "init"
    /\ arg' = <<>>
    /\ ret' = NoRet
    /\ UNCHANGED <<bytes, char_signed>>

Next ==
    \/ Eof
    \/ Illegal
    \/ Emit
    \/ Value
    \/ IsTerminator
    \/ Prec
    \/ CategoryToString
    \/ TypeFromKeyword
    \/ CatFromKeyword
    \/ Discard

Spec == Init /\ [][Next]_vars

-----------------------------------------------------------------------------
(* Properties. *)

\* the token's span lies inside the buffer and is not empty
InBounds(t, b) ==
    /\ t.len_ # U32Zero
    /\ IsSmall(t.pos_) /\ IsSmall(t.len_)
    /\ t.pos_.lo + t.len_.lo <= Len(b)

\* offset >= size or offset + length - 1 >= size, in unbounded arithmetic
OutOfBounds(t, b) ==
    \/ ~IsSmall(t.pos_) \/ t.pos_.lo >= Len(b)
    \/ ~IsSmall(t.len_) \/ t.pos_.lo + t.len_.lo - 1 >= Len(b)

\* the byte a char holds
CharByte(c) == (c + ByteRadix) % ByteRadix

\* C1: a call of Token::value on a non-empty token whose span lies inside
\* the buffer returns a string of len_ chars, the k-th being byte
\* bytes[pos_ + k], and leaves the buffer and the token as they were.
C1_RoundTrip ==
    [][(op' = "value" /\ InBounds(tok, bytes)) =>
          /\ ret'.kind = "Some" /\ ~ret'.oob
          /\ Len(ret'.val) = tok.len_.lo
          /\ \A k \in 0..(tok.len_.lo - 1) :
                 CharByte(ret'.val[k + 1]) = bytes[tok.pos_.lo + k + 1]
          /\ bytes' = bytes /\ tok' = tok]_vars

C1_Witness ==
    /\ op = "value" /\ InBounds(tok, bytes)
    /\ tok.pos_.lo >= 1 /\ tok.len_.lo >= 2
    /\ ret.kind = "Some" /\ Len(ret.val) = tok.len_.lo
    /\ \E k \in 1..Len(ret.val) : ret.val[k] < 0

\* C2: Token::value on a non-empty token whose offset or last byte lies
\* outside the buffer ends in the fatal assertion, and reads nothing
\* outside the buffer.
C2_AssertsBounds ==
    (op = "value" /\ tok.len_ # U32Zero /\ OutOfBounds(tok, bytes)) =>
        (ret.kind = "Fatal" /\ ~ret.oob)

\* C3: Token::value returns Nothing exactly when len_ is zero, whatever the
\* offset and the buffer, and then without a fatal assertion; a non-empty
\* token gets a string or a fatal end.
C3_NothingIffZeroLength ==
    op = "value" =>
        /\ (tok.len_ = U32Zero) <=> (ret.kind = "Nothing")
        /\ tok.len_ # U32Zero => ret.kind \in {"Some", "Fatal", "Crash"}

C3_Witness ==
    /\ op = "value" /\ tok.type_ = "EndOfFile" /\ tok.len_ = U32Zero
    /\ bytes = <<>> /\ tok.pos_ = U32Max
    /\ ret.kind = "Nothing"

IsKeyword(s) == \E i \in 1..Len(Keywords) : Keywords[i].name = s

RowOf(s) == CHOOSE i \in 1..Len(Keywords) : Keywords[i].name = s

\* C4: both lookups return the registered type and category of a keyword
\* spelling, and absence for every other byte string.
C4_LookupExact ==
    /\ op = "type_from_keyword" =>
          IF IsKeyword(arg)
          THEN ret.kind = "Some" /\ ret.val = Keywords[RowOf(arg)].type
          ELSE ret.kind = "Nothing"
    /\ op = "cat_from_keyword" =>
          IF IsKeyword(arg)
          THEN ret.kind = "Some" /\ ret.val = Keywords[RowOf(arg)].cat
          ELSE ret.kind = "Nothing"

\* C5: a spelling of more than 15 bytes gets absence from both lookups with
\* no hash computed, whatever its hash; one of exactly 15 bytes is hashed.
C5_LengthGuard ==
    op \in {"type_from_keyword", "cat_from_keyword"} =>
        /\ Len(arg) > 15 => (ret.kind = "Nothing" /\ ~ret.hashed)
        /\ Len(arg) = 15 => ret.hashed

C5_Witness ==
    /\ op = "type_from_keyword" /\ Len(arg) = 16
    /\ \E i \in 1..Len(Keywords) : mm32(arg) = KeywordHash[i]
    /\ ret.kind = "Nothing" /\ ~ret.hashed

\* value has the one-bit flag v set
HasFlag(value, v) == v > 0 /\ (value \div v) % 2 = 1

SetFlags(value) ==
    SelectSeq([i \in 1..Len(CategoryList) |-> CategoryList[i]],
              LAMBDA c : HasFlag(value, c.value))

RECURSIVE Joined(_)
Joined(cs) ==
    IF Len(cs) = 1 THEN cs[1].name
    ELSE cs[1].name \o SEP \o Joined(Tail(cs))

\* how often the chars w occur in the string str
Occurrences(w, str) ==
    Cardinality({ k \in 1..(Len(str) - Len(w) + 1) : SubSeq(str, k, k + Len(w) - 1) = w })

\* C6: to_string returns a string for every mask: "NonCategorical" for the
\* zero mask; for a mask with listed flags, the names of the set flags, in
\* list order, each once, joined by " | ", with no separator at the end and
\* no "NonCategorical".
C6_ToString ==
    op = "to_string" =>
        /\ ret.kind = "String"
        /\ arg = 0 => ret.val = NAME_NONCAT
        /\ SetFlags(arg) # <<>> =>
              /\ ret.val = Joined(SetFlags(arg))
              /\ \A i \in 1..Len(CategoryList) :
                    Occurrences(CategoryList[i].name, ret.val)
                        = IF HasFlag(arg, CategoryList[i].value) THEN 1 ELSE 0
              /\ ret.val[Len(ret.val)] \notin {" ", "|"}

C6_Witness ==
    /\ op = "to_string" /\ Len(SetFlags(arg)) >= 2
    /\ ret.val = Joined(SetFlags(arg))

\* C7: Token::prec ends in the panic for every token type and returns no
\* rank.
C7_PrecPanics == op = "prec" => ret.kind = "Panic"

C7_Witness ==
    /\ op = "prec" /\ tok.type_ = "Mul" /\ ret.kind = "Panic"

\* C8: Token::eof(pos, line) is the token (pos, length 0, line,
\* NonCategorical, EndOfFile) and Token::illegal(pos, length, line) is the
\* token (pos, length, line, NonCategorical, Illegal): all fields are given
\* by the arguments.
C8_Sentinels ==
    /\ op = "eof" =>
          tok = [pos_ |-> arg.pos, len_ |-> U32Zero, line_ |-> arg.line,
                 cat_ |-> 0, type_ |-> "EndOfFile"]
    /\ op = "illegal" =>
          tok = [pos_ |-> arg.pos, len_ |-> arg.length, line_ |-> arg.line,
                 cat_ |-> 0, type_ |-> "Illegal"]

C8_Witness ==
    /\ op = "illegal" /\ arg.pos = U32Small(1) /\ arg.length = U32Max
    /\ arg.line = 1 /\ tok.type_ = "Illegal"

\* C9: is_terminator is true exactly for the types Semicolon and Comma.
C9_Terminator ==
    op = "is_terminator" => (ret.val <=> tok.type_ \in {"Semicolon", "Comma"})

C9_Witness ==
    /\ op = "is_terminator" /\ tok.type_ = "Comma" /\ tok.cat_ # 0
    /\ ret.val = TRUE

\* C10: for every spelling the type lookup returns a value exactly when the
\* category lookup does, and then the two are the type and the category of
\* one row of the keyword list.
C10_LookupsAgree ==
    /\ op = "type_from_keyword" =>
          LET c == TokenCategory_from_keyword(arg)
          IN  /\ (ret.kind = "Some") <=> (c.kind = "Some")
              /\ ret.kind = "Some" =>
                    \E i \in 1..Len(Keywords) :
                        Keywords[i].type = ret.val /\ Keywords[i].cat = c.val
    /\ op = "cat_from_keyword" =>
          LET t == TokenType_from_keyword(arg)
          IN  /\ (ret.kind = "Some") <=> (t.kind = "Some")
              /\ ret.kind = "Some" =>
                    \E i \in 1..Len(Keywords) :
                        Keywords[i].type = t.val /\ Keywords[i].cat = ret.val

C10_Witness ==
    /\ op = "type_from_keyword" /\ Len(arg) = 15 /\ ~IsKeyword(arg)
    /\ ret.kind = "Some"
    /\ TokenCategory_from_keyword(arg).kind = "Some"

=============================================================================
